---- MODULE Spec2Model ----
(***************************************************************************)
(* Model of the FastAPI / PostgreSQL backend slice (002_Fast_PGSQL/app):   *)
(* request validation, the /prompt and /mock handlers, the prompt service, *)
(* the request -> item mapper, the scoped database session providers and   *)
(* the in-process session-history store.                                   *)
(*                                                                         *)
(* Python values are modelled as follows.                                  *)
(*   - None in an Optional[str] position is the string NONE; None in an    *)
(*     object position is the record NoneObject.                           *)
(*   - an object is a record of its attributes plus cls, its class name.   *)
(*   - the result of a call is an outcome: Return(value) or                *)
(*     Raise(type, text), where text is str(ex) of the exception.          *)
(***************************************************************************)
EXTENDS Integers, Sequences, FiniteSets, TLC

VARIABLES
    call,       \* the last validator / handler / service call and its outcome
    item,       \* the AIMessageItem the caller of the mapper holds (or NoneObject)
    mapCall,    \* the last mapper call and its outcome
    pc,         \* per request: position in the scoped session dependency
    provider,   \* per request: which session provider the request depends on
    opened,     \* per request: number of sessions opened for it
    closed,     \* per request: number of close() calls on its session
    store,      \* api_buffer_memory.store: session id -> history object
    nextObj,    \* allocator of history object identities
    requested,  \* session ids get_session_history was ever called with
    firstGot,   \* session id -> history object its first call returned
    lastGot     \* the last get_session_history call: [sid, obj] (or no call yet)

valVars   == <<call>>
mapVars   == <<item, mapCall>>
dbVars    == <<pc, provider, opened, closed>>
storeVars == <<store, nextObj, requested, firstGot, lastGot>>
vars      == <<call, item, mapCall, pc, provider, opened, closed,
               store, nextObj, requested, firstGot, lastGot>>

-----------------------------------------------------------------------------
(* Python values and call outcomes *)

NONE == "<None>"
NoneObject == [cls |-> "NoneType"]

Return(v) == [kind |-> "return", value |-> v]
Raise(type, text) == [kind |-> "raise", type |-> type, text |-> text]

\* obj.name : the attribute, or AttributeError when the object has none
GetAttr(obj, name) ==
    IF name \in DOMAIN obj
    THEN Return(obj[name])
    ELSE Raise("AttributeError",
               "'" \o obj.cls \o "' object has no attribute '" \o name \o "'")

\* Message is a str in the validators and a dict {"error": ...} in the handlers
NoMessage == [tag |-> "none"]
StrMessage(s) == [tag |-> "str", text |-> s]
ErrorDict(s) == [tag |-> "dict", error |-> s]

\* an object that is neither None nor a request (no question / content attribute)
ForeignObject == [cls |-> "object"]

-----------------------------------------------------------------------------
(* Data transfer contracts *)

\* common_base.ModelBase / ItemBase: the status flags every model / item carries
ModelBase == [IsInvalid |-> FALSE, Message |-> NoMessage]
ItemBase == [IsInvalid |-> FALSE, Message |-> NoMessage]

Questions == {NONE, "", "What is PostgreSQL?"}
Contexts == {NONE, "ctx"}
PromptSessionIds == {NONE, "s1"}

PromptRequest(question, context, session_id) ==
    [cls |-> "PromptRequest", question |-> question, context |-> context,
     session_id |-> session_id]

\* PromptRequest() : every field is Optional with default None
PromptRequest_new == Return(PromptRequest(NONE, NONE, NONE))

PromptRequests ==
    {PromptRequest(q, c, s) : q \in Questions, c \in Contexts, s \in PromptSessionIds}

\* PromptResponse()
PromptResponse ==
    ItemBase @@ [cls |-> "PromptResponse", response |-> NONE, prompt_id |-> NONE,
                 model_name |-> NONE, tokens_used |-> NONE]

\* PromptModel()
PromptModel ==
    ModelBase @@ [cls |-> "PromptModel", request |-> NoneObject, response |-> NoneObject]

MessageIds == {"m1", "m2"}
SessionIds == {"s1", "s2"}
TenantIds == {"t1"}
UserIds == {"u1"}
AiRole == {"system", "user", "assistant", "tool"}
Roles == {"user", "assistant"}
Contents == {"", "hello"}
Metas == {"{}", "{k:v}"}
Timestamps == {"2025-01-01T00:00:00Z"}

MessageFields ==
    {"message_id", "session_id", "tenant_id", "user_id", "role", "content", "meta",
     "created_at"}

\* the keyword arguments of a fully specified message
MessageKwargs ==
    [message_id : MessageIds, session_id : SessionIds, tenant_id : TenantIds,
     user_id : UserIds, role : Roles, content : Contents, meta : Metas,
     created_at : Timestamps]

NoKwargs == <<>>

ValidationErrorText(missing, clsName) ==
    ToString(Cardinality(missing)) \o " validation errors for " \o clsName

\* AiMessageRequest(**kwargs) : all eight fields are required, none has a default
AiMessageRequest_new(kwargs) ==
    LET missing == MessageFields \ DOMAIN kwargs IN
    IF missing # {}
    THEN Raise("ValidationError", ValidationErrorText(missing, "AiMessageRequest"))
    ELSE Return(kwargs @@ [cls |-> "AiMessageRequest"])

\* AIMessageItem(**kwargs) : all eight fields are required, none has a default
AIMessageItem_new(kwargs) ==
    LET missing == MessageFields \ DOMAIN kwargs IN
    IF missing # {}
    THEN Raise("ValidationError", ValidationErrorText(missing, "AIMessageItem"))
    ELSE Return(kwargs @@ ItemBase @@ [cls |-> "AIMessageItem"])

\* AIMessageModel()
AIMessageModel ==
    ModelBase @@ [cls |-> "AIMessageModel", request |-> NoneObject,
                  response |-> NoneObject, item |-> NoneObject]

\* the well-formed requests: those the constructor accepts
AiMessageRequests == {AiMessageRequest_new(k).value : k \in MessageKwargs}

\* requests whose content was set to None after construction
AiMessageRequestsNoContent == {[r EXCEPT !.content = NONE] : r \in AiMessageRequests}

-----------------------------------------------------------------------------
(* APIValidation (common/validation/api_validation.py) *)

APIValidation_set_inv_msg(model, msg) ==
    [model EXCEPT !.IsInvalid = TRUE, !.Message = StrMessage(msg)]

\* the body of the try block of validate_prompt_request, model = PromptModel()
validate_prompt_request_try(request) ==
    LET model == PromptModel IN
    IF request = NoneObject
    THEN LET placeholder == PromptRequest_new IN
         IF placeholder.kind = "raise"
         THEN placeholder
         ELSE Return(APIValidation_set_inv_msg(
                         [model EXCEPT !.request = placeholder.value],
                         "Request is None"))
    ELSE LET question == GetAttr(request, "question") IN
         IF question.kind = "raise"
         THEN question
         ELSE IF question.value = NONE \/ question.value = ""
              THEN Return(APIValidation_set_inv_msg(model, "Question is None or empty"))
              ELSE Return(model)

\* a validator whose except clause lets the failure escape
validate_prompt_request_uncaught(request) == validate_prompt_request_try(request)

validate_prompt_request(request) ==
    LET body == validate_prompt_request_try(request) IN
    IF body.kind = "raise"
    THEN Return(APIValidation_set_inv_msg(PromptModel, body.text))
    ELSE body

\* IAPIValidation is a structural protocol: the handler is given any object
\* with a validate_prompt_request method, APIValidation or another one whose
\* method may raise.
ValidationImpls == {"APIValidation", "RaisingValidation"}

IAPIValidation_validate_prompt_request(impl, request) ==
    IF impl = "APIValidation"
    THEN validate_prompt_request(request)
    ELSE Raise("RuntimeError", "validation backend unavailable")

-----------------------------------------------------------------------------
(* AIMessageValidation (common/validation/ai_message_validation.py) *)

AIMessageValidation_set_inv_msg(model, msg) ==
    [model EXCEPT !.IsInvalid = TRUE, !.Message = StrMessage(msg)]

\* the body of the try block of validate_request, model = AIMessageModel()
validate_request_try(request) ==
    LET model == AIMessageModel IN
    IF request = NoneObject
    THEN LET placeholder == AiMessageRequest_new(NoKwargs) IN
         IF placeholder.kind = "raise"
         THEN placeholder
         ELSE Return(AIMessageValidation_set_inv_msg(
                         [model EXCEPT !.request = placeholder.value],
                         "Request is None"))
    ELSE LET content == GetAttr(request, "content") IN
         IF content.kind = "raise"
         THEN content
         ELSE IF content.value = NONE
              THEN Return(AIMessageValidation_set_inv_msg(model, "Content is None"))
              ELSE Return(model)

\* a validator whose except clause lets the failure escape
validate_request_uncaught(request) == validate_request_try(request)

validate_request(request) ==
    LET body == validate_request_try(request) IN
    IF body.kind = "raise"
    THEN Return(AIMessageValidation_set_inv_msg(AIMessageModel, body.text))
    ELSE body

-----------------------------------------------------------------------------
(* The handlers of api_buffer_memory.py and PromptService *)

\* the body of the try block of POST /mock; yields the local model
post_mock_try(request, response) ==
    Return([PromptModel EXCEPT !.request = request, !.response = response])

\* POST /mock
post_mock(request) ==
    LET response == PromptResponse
        body == post_mock_try(request, response)
    IN  IF body.kind = "raise"
        THEN Return([response EXCEPT !.Message = ErrorDict(body.text)])
        ELSE Return(response)

\* the body of the try block of POST /prompt; yields the local model
post_prompt_try(request, api_validation, response) ==
    LET validated == IAPIValidation_validate_prompt_request(api_validation, request) IN
    IF validated.kind = "raise"
    THEN validated
    ELSE Return([validated.value EXCEPT !.request = request, !.response = response])

\* POST /prompt
post_prompt(request, api_validation) ==
    LET response == PromptResponse
        body == post_prompt_try(request, api_validation, response)
    IN  IF body.kind = "raise"
        THEN Return([response EXCEPT !.Message = ErrorDict(body.text)])
        ELSE Return(response)

PromptService_set_inv_msg(model, msg) ==
    [model EXCEPT !.IsInvalid = TRUE, !.Message = StrMessage(msg)]

\* the body of the try block of PromptService.invoke_llm
invoke_llm_try(model) == Return(model)

\* PromptService.invoke_llm
invoke_llm(model) ==
    LET body == invoke_llm_try(model) IN
    IF body.kind = "raise"
    THEN Return(PromptService_set_inv_msg(model, body.text))
    ELSE body

\* the models a caller hands to invoke_llm: what the /prompt pipeline built
PromptModels ==
    {post_prompt_try(r, "APIValidation", PromptResponse).value : r \in PromptRequests}

\* what a try block raised, or NoneObject
Caught(body) == IF body.kind = "raise" THEN body ELSE NoneObject

NoCall == [op |-> "none"]

InitValidation == call = NoCall

ValidatePromptRequest ==
    /\ \E request \in PromptRequests \cup {NoneObject, ForeignObject} :
          call' = [op |-> "validate_prompt_request", request |-> request,
                   outcome |-> validate_prompt_request(request)]
    /\ UNCHANGED <<mapVars, dbVars, storeVars>>

ValidateRequest ==
    /\ \E request \in AiMessageRequests \cup AiMessageRequestsNoContent
                        \cup {NoneObject, ForeignObject} :
          call' = [op |-> "validate_request", request |-> request,
                   outcome |-> validate_request(request)]
    /\ UNCHANGED <<mapVars, dbVars, storeVars>>

PostMock ==
    /\ \E request \in PromptRequests :
          call' = [op |-> "post_mock", request |-> request,
                   caught |-> Caught(post_mock_try(request, PromptResponse)),
                   outcome |-> post_mock(request)]
    /\ UNCHANGED <<mapVars, dbVars, storeVars>>

PostPrompt ==
    /\ \E request \in PromptRequests, api_validation \in ValidationImpls :
          call' = [op |-> "post_prompt", request |-> request,
                   api_validation |-> api_validation,
                   caught |-> Caught(post_prompt_try(request, api_validation,
                                                     PromptResponse)),
                   outcome |-> post_prompt(request, api_validation)]
    /\ UNCHANGED <<mapVars, dbVars, storeVars>>

InvokeLlm ==
    /\ \E model \in PromptModels :
          call' = [op |-> "invoke_llm", request |-> model,
                   caught |-> Caught(invoke_llm_try(model)),
                   outcome |-> invoke_llm(model)]
    /\ UNCHANGED <<mapVars, dbVars, storeVars>>

NextValidation ==
    \/ ValidatePromptRequest
    \/ ValidateRequest
    \/ PostMock
    \/ PostPrompt
    \/ InvokeLlm

-----------------------------------------------------------------------------
(* MapConv (common/map/map_conv.py) *)

\* get_item_by_request(source, destination); destination is NoneObject when
\* the caller passes none. The copy mutates destination in place and returns it.
get_item_by_request(source, destination) ==
    LET dest == IF destination = NoneObject
                THEN AIMessageItem_new(NoKwargs)
                ELSE Return(destination)
    IN  IF dest.kind = "raise"
        THEN dest
        ELSE IF source = NoneObject
             THEN Raise("ValueError", "AiMessageRequest cannot be None")
             ELSE Return([dest.value EXCEPT
                            !.message_id = source.message_id,
                            !.session_id = source.session_id,
                            !.tenant_id = source.tenant_id,
                            !.user_id = source.user_id,
                            !.role = source.role,
                            !.content = source.content,
                            !.meta = source.meta,
                            !.created_at = source.created_at])

MapSources == AiMessageRequests \cup {NoneObject}

InitMap ==
    /\ item = NoneObject
    /\ mapCall = NoCall

\* the caller builds the item it will pass as destination, all fields given
CreateItem ==
    /\ item = NoneObject
    /\ \E kwargs \in MessageKwargs :
          /\ item' = AIMessageItem_new(kwargs).value
          /\ mapCall' = [op |-> "AIMessageItem", kwargs |-> kwargs]
    /\ UNCHANGED <<valVars, dbVars, storeVars>>

\* get_item_by_request(source, item): the item is the existing destination
MapIntoItem ==
    /\ item # NoneObject
    /\ \E source \in MapSources :
          LET outcome == get_item_by_request(source, item) IN
          /\ mapCall' = [op |-> "get_item_by_request", source |-> source,
                         destination |-> item, outcome |-> outcome]
          /\ item' = IF outcome.kind = "return" THEN outcome.value ELSE item
    /\ UNCHANGED <<valVars, dbVars, storeVars>>

\* get_item_by_request(source): no destination is passed
MapFresh ==
    /\ \E source \in MapSources :
          mapCall' = [op |-> "get_item_by_request", source |-> source,
                      destination |-> NoneObject,
                      outcome |-> get_item_by_request(source, NoneObject)]
    /\ UNCHANGED <<item, valVars, dbVars, storeVars>>

NextMap ==
    \/ CreateItem
    \/ MapIntoItem
    \/ MapFresh

-----------------------------------------------------------------------------
(* Scoped database sessions (dal/connections) *)

NumRequests == 3
Requests == 1 .. NumRequests

Providers == {"get_pgsql_db", "get_pgsql_db_async"}

\* close() calls made when control leaves a provider's generator without
\* reaching its finally clause on an exception
close_on_return_only(how, n) == IF how = "returned" THEN n + 1 ELSE n

\* get_pgsql_db: try: yield db / finally: db.close(), whichever way the
\* request that holds the session ends
get_pgsql_db_finally(how, n) == n + 1

\* get_pgsql_db_async: async with pgsql_session() as session: the context
\* manager's exit closes the session, whichever way the request ends
get_pgsql_db_async_exit(how, n) == n + 1

InitDb ==
    /\ pc = [r \in Requests |-> "idle"]
    /\ provider = [r \in Requests |-> "none"]
    /\ opened = [r \in Requests |-> 0]
    /\ closed = [r \in Requests |-> 0]

\* db = pg_sql_session(); yield db  (the dependency of di_get_ai_message_repo)
get_pgsql_db_yield(r) ==
    /\ pc[r] = "idle"
    /\ pc' = [pc EXCEPT ![r] = "yielded"]
    /\ provider' = [provider EXCEPT ![r] = "get_pgsql_db"]
    /\ opened' = [opened EXCEPT ![r] = @ + 1]
    /\ UNCHANGED <<closed, valVars, mapVars, storeVars>>

\* the request ends (how): the generator is resumed or thrown into
get_pgsql_db_end(r, how) ==
    /\ pc[r] = "yielded"
    /\ provider[r] = "get_pgsql_db"
    /\ closed' = [closed EXCEPT ![r] = get_pgsql_db_finally(how, @)]
    /\ pc' = [pc EXCEPT ![r] = how]
    /\ UNCHANGED <<provider, opened, valVars, mapVars, storeVars>>

\* async with pgsql_session() as session: yield session
get_pgsql_db_async_yield(r) ==
    /\ pc[r] = "idle"
    /\ pc' = [pc EXCEPT ![r] = "yielded"]
    /\ provider' = [provider EXCEPT ![r] = "get_pgsql_db_async"]
    /\ opened' = [opened EXCEPT ![r] = @ + 1]
    /\ UNCHANGED <<closed, valVars, mapVars, storeVars>>

get_pgsql_db_async_end(r, how) ==
    /\ pc[r] = "yielded"
    /\ provider[r] = "get_pgsql_db_async"
    /\ closed' = [closed EXCEPT ![r] = get_pgsql_db_async_exit(how, @)]
    /\ pc' = [pc EXCEPT ![r] = how]
    /\ UNCHANGED <<provider, opened, valVars, mapVars, storeVars>>

Endings == {"returned", "raised"}

SyncYield == \E r \in Requests : get_pgsql_db_yield(r)
SyncEnd == \E r \in Requests, how \in Endings : get_pgsql_db_end(r, how)
AsyncYield == \E r \in Requests : get_pgsql_db_async_yield(r)
AsyncEnd == \E r \in Requests, how \in Endings : get_pgsql_db_async_end(r, how)

NextDb ==
    \/ SyncYield
    \/ SyncEnd
    \/ AsyncYield
    \/ AsyncEnd

-----------------------------------------------------------------------------
(* The in-process session store (api_buffer_memory.store) *)

NumStoreSessions == 4
StoreSessionIds == {"sid" \o ToString(i) : i \in 1 .. NumStoreSessions}

\* a store access that builds a new history on every call
get_session_history_always_new(st, next, session_id) ==
    [store |-> [s \in DOMAIN st \cup {session_id} |->
                    IF s = session_id THEN next ELSE st[s]],
     next |-> next + 1,
     result |-> next]

\* get_session_history(session_id) on store st; next is the identity the next
\* InMemoryChatMessageHistory() gets. Yields the store, the allocator and the
\* returned history.
get_session_history(st, next, session_id) ==
    LET st1 == IF session_id \notin DOMAIN st
               THEN [s \in DOMAIN st \cup {session_id} |->
                        IF s = session_id THEN next ELSE st[s]]
               ELSE st
        next1 == IF session_id \notin DOMAIN st THEN next + 1 ELSE next
    IN  [store |-> st1, next |-> next1, result |-> st1[session_id]]

NoGot == [sid |-> NONE, obj |-> 0]

InitStore ==
    /\ store = <<>>
    /\ nextObj = 1
    /\ requested = {}
    /\ firstGot = <<>>
    /\ lastGot = NoGot

GetSessionHistory ==
    /\ \E session_id \in StoreSessionIds :
          LET got == get_session_history(store, nextObj, session_id) IN
          /\ store' = got.store
          /\ nextObj' = got.next
          /\ requested' = requested \cup {session_id}
          /\ firstGot' = IF session_id \in DOMAIN firstGot
                         THEN firstGot
                         ELSE [s \in DOMAIN firstGot \cup {session_id} |->
                                  IF s = session_id THEN got.result ELSE firstGot[s]]
          /\ lastGot' = [sid |-> session_id, obj |-> got.result]
    /\ UNCHANGED <<valVars, mapVars, dbVars>>

NextStore == GetSessionHistory

-----------------------------------------------------------------------------
(* Specifications *)

Init ==
    /\ InitValidation
    /\ InitMap
    /\ InitDb
    /\ InitStore

Next ==
    \/ NextValidation
    \/ NextMap
    \/ NextDb
    \/ NextStore

\* the whole slice
Spec == Init /\ [][Next]_vars

\* one component at a time, the others at rest
SpecValidation == Init /\ [][NextValidation]_vars
SpecMap == Init /\ [][NextMap]_vars
SpecDb == Init /\ [][NextDb]_vars
SpecStore == Init /\ [][NextStore]_vars

-----------------------------------------------------------------------------
(* Properties *)

ValidatorOps == {"validate_prompt_request", "validate_request"}
HandlerOps == {"post_mock", "post_prompt", "invoke_llm"}

QuestionMessages == {"Question is None or empty"}
ContentMessages == {"Content is None", "Content is None or empty"}

\* C1: a POST /prompt call (validator as wired by di_get_api_validation) whose
\* question is None or "" returns a response with the invalid flag set and the
\* rejection reason as its message.
PromptRejectionVisible ==
    (/\ call.op = "post_prompt"
     /\ call.api_validation = "APIValidation"
     /\ call.request.question \in {NONE, ""})
    => /\ call.outcome.kind = "return"
       /\ call.outcome.value.IsInvalid = TRUE
       /\ \E m \in QuestionMessages :
             call.outcome.value.Message \in {StrMessage(m), ErrorDict(m)}

\* C2: for a request that is present, each validator rejects (IsInvalid, a
\* message naming the field) exactly when its required field is None or "",
\* and leaves IsInvalid unset otherwise.
RequiredFieldRejected ==
    /\ (call.op = "validate_prompt_request" /\ call.request \in PromptRequests)
       => /\ call.outcome.kind = "return"
          /\ IF call.request.question \in {NONE, ""}
             THEN /\ call.outcome.value.IsInvalid = TRUE
                  /\ \E m \in QuestionMessages :
                        call.outcome.value.Message = StrMessage(m)
             ELSE call.outcome.value.IsInvalid = FALSE
    /\ (/\ call.op = "validate_request"
        /\ call.request \in AiMessageRequests \cup AiMessageRequestsNoContent)
       => /\ call.outcome.kind = "return"
          /\ IF call.request.content \in {NONE, ""}
             THEN /\ call.outcome.value.IsInvalid = TRUE
                  /\ \E m \in ContentMessages :
                        call.outcome.value.Message = StrMessage(m)
             ELSE call.outcome.value.IsInvalid = FALSE

\* C3: when the request itself is None, each validator returns a rejection
\* whose message is "Request is None" and no other failure text.
RequestNoneRejected ==
    (call.op \in ValidatorOps /\ call.request = NoneObject)
    => /\ call.outcome.kind = "return"
       /\ call.outcome.value.IsInvalid = TRUE
       /\ call.outcome.value.Message = StrMessage("Request is None")

\* C4: both validators always return a model and never raise; a failure
\* raised while validating (the attribute error of an object that is no
\* request, the construction error of the placeholder request) comes back as
\* a model with IsInvalid set and the failure text as its message.
ValidationNeverRaises ==
    call.op \in ValidatorOps
    => /\ call.outcome.kind = "return"
       /\ call.outcome.value.cls =
             (IF call.op = "validate_prompt_request"
              THEN "PromptModel" ELSE "AIMessageModel")
       /\ call.request = ForeignObject
          => /\ call.outcome.value.IsInvalid = TRUE
             /\ call.outcome.value.Message =
                   StrMessage("'object' object has no attribute '"
                              \o (IF call.op = "validate_prompt_request"
                                  THEN "question" ELSE "content")
                              \o "'")
       /\ (call.op = "validate_request" /\ call.request = NoneObject)
          => /\ call.outcome.value.IsInvalid = TRUE
             /\ call.outcome.value.Message =
                   StrMessage("8 validation errors for AiMessageRequest")

\* C4 witness: validate_request was called with None, building the
\* placeholder failed, and the failure came back as a rejection model.
ValidationFailureConverted ==
    /\ call.op = "validate_request"
    /\ call.request = NoneObject
    /\ validate_request_try(call.request).kind = "raise"
    /\ call.outcome.kind = "return"
    /\ call.outcome.value.IsInvalid = TRUE

MapperCopiesEveryField ==
    (mapCall.op = "get_item_by_request" /\ mapCall.source # NoneObject)
    => /\ mapCall.outcome.kind = "return"
       /\ \A f \in MessageFields : mapCall.outcome.value[f] = mapCall.source[f]

\* C7: when the source is None the mapper fails with
\* ValueError("AiMessageRequest cannot be None") whatever the destination,
\* and an existing destination is left as it was.
MapperRejectsNoneSource ==
    (mapCall.op = "get_item_by_request" /\ mapCall.source = NoneObject)
    => /\ mapCall.outcome = Raise("ValueError", "AiMessageRequest cannot be None")
       /\ mapCall.destination # NoneObject => item = mapCall.destination

\* C9: once an item carries a message_id, no operation changes it.
MessageIdImmutable ==
    [][item # NoneObject => item'.message_id = item.message_id]_vars

\* C8: a request that ended, by returning or by raising, had one session
\* opened and closed it exactly once; a request still running holds its one
\* session open; no other session exists.
SessionReleasedOnce ==
    \A r \in Requests :
        /\ pc[r] \in Endings => (opened[r] = 1 /\ closed[r] = 1)
        /\ pc[r] = "yielded" => (opened[r] = 1 /\ closed[r] = 0)
        /\ pc[r] = "idle" => (opened[r] = 0 /\ closed[r] = 0)

\* C8 witness: one request on the sync provider ended by an exception and
\* another on the async provider ended normally, both sessions closed.
SessionsReleasedBothWays ==
    \E r1, r2 \in Requests :
        /\ pc[r1] = "raised" /\ provider[r1] = "get_pgsql_db" /\ closed[r1] = 1
        /\ pc[r2] = "returned" /\ provider[r2] = "get_pgsql_db_async"
        /\ closed[r2] = 1

\* C10: the store holds a history for exactly the session ids ever requested,
\* each the one its first call created and returned by every later call, with
\* distinct ids holding distinct histories.
StoreOneHistoryPerSession ==
    /\ DOMAIN store = requested
    /\ \A s \in DOMAIN store : store[s] = firstGot[s]
    /\ \A s, t \in DOMAIN store : s # t => store[s] # store[t]
    /\ lastGot # NoGot => lastGot.obj = firstGot[lastGot.sid]

\* C10 witness: with two or more histories stored, a call returned a history
\* that an earlier call had created.
StoreReturnedExistingHistory ==
    /\ Cardinality(DOMAIN store) >= 2
    /\ lastGot # NoGot
    /\ lastGot.obj < nextObj - 1

====
